---- MODULE Spec2Model ----
(***************************************************************************)
(* The multi-provider LLM invocation layer (src/llm_providers.py call_llm  *)
(* and its adapters, src/main.py llm_generate) and the JSON extractor      *)
(* (src/main.py parse_json_from_llm), and the route handlers that use both *)
(* (src/main.py start_case, analyze_swot, analyze_pestle).                 *)
(*                                                                         *)
(* A Python str is a sequence of one-character strings.  A Python value    *)
(* that came out of JSON is a record [t, n, s, ks, vs]: t is the type tag, *)
(* n an int's value, s a str's characters, ks/vs a dict's keys and values  *)
(* in insertion order (vs alone for a list).                               *)
(***************************************************************************)
EXTENDS Integers, Sequences, FiniteSets

VARIABLES
  cfg,      \* module-level configuration read from the environment at import
  pc,       \* position of the generate call: "idle", "awaiting", "returned"
  impl,     \* the router that is running: "call_llm" or "llm_generate"
  llm,      \* the provider argument as passed by the caller
  prompt,   \* the prompt argument
  kwargs,   \* call_llm's **kwargs
  adapter,  \* the adapter the router dispatched to
  outbox,   \* the outbound requests issued by the current call, in order
  resp,     \* what came back from the network for the request in flight
  ret,      \* what the call handed back to its caller
  src,      \* how the extractor's input text was put together
  text,     \* the extractor's argument
  ppc,      \* position of the extractor: "ready", "done"
  parsed,   \* the extractor's return value
  reqs,     \* the route-handler requests: position and locals of each
  files,    \* the reports directory: state and content of each report file
  cases     \* the committed rows of table cases

routerVars == <<cfg, pc, impl, llm, prompt, kwargs, adapter, outbox, resp, ret>>
extractVars == <<src, text, ppc, parsed>>
vars == <<cfg, pc, impl, llm, prompt, kwargs, adapter, outbox, resp, ret, src, text, ppc, parsed,
          reqs, files, cases>>

\* ------------------------------------------------------------------ bounds

\* Longest free-form text handed to the extractor.
MaxFreeLen == 5
\* Deepest nesting of the JSON values that are serialized and handed over.
MaxDepth == 2
\* Most requests the route handlers serve, any number of them at once.
MaxRequests == 2
\* Most text parts in one Gemini candidate.
MaxParts == 2

\* ------------------------------------------------------------------ str

Whitespace == {" ", "\n", "\t", "\r"}
DigitChars == <<"0", "1", "2", "3", "4", "5", "6", "7", "8", "9">>
DigitSet == {DigitChars[i] : i \in 1..10}
UpperChars == <<"A","B","C","D","E","F","G","H","I","J","K","L","M","N","O","P","Q","R","S","T","U","V","W","X","Y","Z">>
LowerChars == <<"a","b","c","d","e","f","g","h","i","j","k","l","m","n","o","p","q","r","s","t","u","v","w","x","y","z">>

Min(a, b) == IF a < b THEN a ELSE b

\* str.lower()
LowerChar(c) ==
  IF \E i \in 1..26 : UpperChars[i] = c
  THEN LowerChars[CHOOSE i \in 1..26 : UpperChars[i] = c]
  ELSE c
lower(s) == [i \in 1..Len(s) |-> LowerChar(s[i])]

\* str.strip(): drops the leading and the trailing run of whitespace
strip(s) ==
  LET keep == {i \in 1..Len(s) : s[i] \notin Whitespace}
  IN IF keep = {} THEN <<>>
     ELSE LET a == CHOOSE i \in keep : \A j \in keep : i <= j
              b == CHOOSE i \in keep : \A j \in keep : j <= i
          IN SubSeq(s, a, b)

\* sub in s
Contains(s, sub) ==
  \E i \in 1..(Len(s) - Len(sub) + 1) : SubSeq(s, i, i + Len(sub) - 1) = sub
\* s.startswith(pre)
StartsWith(s, pre) == Len(pre) <= Len(s) /\ SubSeq(s, 1, Len(pre)) = pre

\* str.find(c): 0-based index of the first occurrence, -1 when there is none
Find(s, c) ==
  IF \E i \in 1..Len(s) : s[i] = c
  THEN (CHOOSE i \in 1..Len(s) : s[i] = c /\ \A j \in 1..(i - 1) : s[j] # c) - 1
  ELSE -1

\* s[:n]
Truncate(s, n) == SubSeq(s, 1, Min(Len(s), n))

RECURSIVE Join(_)
\* "".join(seq of str)
Join(ss) == IF ss = <<>> THEN <<>> ELSE Head(ss) \o Join(Tail(ss))

RECURSIVE IntToStr(_)
\* str(n) for n >= 0
IntToStr(n) ==
  IF n < 10 THEN <<DigitChars[n + 1]>>
  ELSE IntToStr(n \div 10) \o <<DigitChars[(n % 10) + 1]>>

DigitVal(c) == (CHOOSE i \in 1..10 : DigitChars[i] = c) - 1
RECURSIVE StrToInt(_)
\* int(digits)
StrToInt(ds) ==
  IF ds = <<>> THEN 0
  ELSE 10 * StrToInt(SubSeq(ds, 1, Len(ds) - 1)) + DigitVal(ds[Len(ds)])

\* ------------------------------------------------------------------ values

JVal(tag, num, chars, keys, vals) ==
  [t |-> tag, n |-> num, s |-> chars, ks |-> keys, vs |-> vals]
JNull == JVal("null", 0, <<>>, <<>>, <<>>)
JTrue == JVal("true", 0, <<>>, <<>>, <<>>)
JFalse == JVal("false", 0, <<>>, <<>>, <<>>)
JNum(i) == JVal("num", i, <<>>, <<>>, <<>>)
JStr(cs) == JVal("str", 0, cs, <<>>, <<>>)
JArr(vals) == JVal("arr", 0, <<>>, <<>>, vals)
JObj(keys, vals) == JVal("obj", 0, <<>>, keys, vals)
\* a raised exception e, with str(e)
Exc(msg) == JVal("exc", 0, msg, <<>>, <<>>)
\* no value (nothing returned yet)
NoVal == JVal("none", 0, <<>>, <<>>, <<>>)

IsStr(v) == v.t = "str"
IsDict(v) == v.t = "obj"
IsExc(v) == v.t = "exc"

\* Python truth value of a JSON-born value
Truthy(v) ==
  CASE v.t = "null" -> FALSE
    [] v.t = "false" -> FALSE
    [] v.t = "true" -> TRUE
    [] v.t = "num" -> v.n # 0
    [] v.t = "str" -> v.s # <<>>
    [] v.t = "arr" -> v.vs # <<>>
    [] v.t = "obj" -> v.ks # <<>>
    [] OTHER -> TRUE

\* d[key] = val on a dict: a key already present keeps its place
DictPut(keys, vals, key, val) ==
  IF \E i \in 1..Len(keys) : keys[i] = key
  THEN <<keys, [vals EXCEPT ![CHOOSE i \in 1..Len(keys) : keys[i] = key] = val]>>
  ELSE <<Append(keys, key), Append(vals, val)>>

\* ------------------------------------------------------------------ json.dumps

EscapeChar(c) ==
  CASE c = "\"" -> <<"\\", "\"">>
    [] c = "\\" -> <<"\\", "\\">>
    [] c = "\n" -> <<"\\", "n">>
    [] c = "\t" -> <<"\\", "t">>
    [] c = "\r" -> <<"\\", "r">>
    [] OTHER -> <<c>>
EncodeString(cs) == <<"\"">> \o Join([i \in 1..Len(cs) |-> EscapeChar(cs[i])]) \o <<"\"">>

RECURSIVE Serialize(_, _, _)
\* json.dumps(v, separators=(item_sep, key_sep))
Serialize(v, item_sep, key_sep) ==
  CASE v.t = "null" -> <<"n", "u", "l", "l">>
    [] v.t = "true" -> <<"t", "r", "u", "e">>
    [] v.t = "false" -> <<"f", "a", "l", "s", "e">>
    [] v.t = "num" -> IF v.n < 0 THEN <<"-">> \o IntToStr(0 - v.n) ELSE IntToStr(v.n)
    [] v.t = "str" -> EncodeString(v.s)
    [] v.t = "arr" ->
         <<"[">> \o Join([i \in 1..Len(v.vs) |->
                  (IF i > 1 THEN item_sep ELSE <<>>) \o Serialize(v.vs[i], item_sep, key_sep)])
         \o <<"]">>
    [] v.t = "obj" ->
         <<"{">> \o Join([i \in 1..Len(v.ks) |->
                  (IF i > 1 THEN item_sep ELSE <<>>) \o EncodeString(v.ks[i]) \o key_sep
                  \o Serialize(v.vs[i], item_sep, key_sep)])
         \o <<"}">>

\* json.dumps(v) with Python's default separators
json_dumps(v) == Serialize(v, <<",", " ">>, <<":", " ">>)
\* the minified form the prompts ask the model for
Minified(v) == Serialize(v, <<",">>, <<":">>)

\* ------------------------------------------------------------------ json.loads
\* Number literals are integers: no modelled text holds a fraction or an
\* exponent.  \uXXXX escapes do not occur in any modelled text either.

Fail == [ok |-> FALSE, v |-> JNull, pos |-> 0]
Ok(v, pos) == [ok |-> TRUE, v |-> v, pos |-> pos]

RECURSIVE SkipWs(_, _)
SkipWs(cs, i) == IF i <= Len(cs) /\ cs[i] \in Whitespace THEN SkipWs(cs, i + 1) ELSE i

MatchAt(cs, i, lit) == i + Len(lit) - 1 <= Len(cs) /\ SubSeq(cs, i, i + Len(lit) - 1) = lit

Unescape(c) ==
  CASE c = "n" -> "\n"
    [] c = "t" -> "\t"
    [] c = "r" -> "\r"
    [] OTHER -> c

RECURSIVE ScanString(_, _, _)
\* i is the position after the opening quote, acc the characters decoded so far
ScanString(cs, i, acc) ==
  IF i > Len(cs) THEN Fail
  ELSE IF cs[i] = "\"" THEN Ok(JStr(acc), i + 1)
  ELSE IF cs[i] = "\\" THEN
         IF i + 1 <= Len(cs) /\ cs[i + 1] \in {"\"", "\\", "/", "n", "t", "r"}
         THEN ScanString(cs, i + 2, Append(acc, Unescape(cs[i + 1])))
         ELSE Fail
  ELSE IF cs[i] \in {"\n", "\t", "\r"} THEN Fail
  ELSE ScanString(cs, i + 1, Append(acc, cs[i]))

RECURSIVE ScanDigits(_, _)
ScanDigits(cs, i) == IF i <= Len(cs) /\ cs[i] \in DigitSet THEN ScanDigits(cs, i + 1) ELSE i

\* -?(0|[1-9]\d*)
ScanNumber(cs, i) ==
  LET neg == cs[i] = "-"
      j == IF neg THEN i + 1 ELSE i
  IN IF j > Len(cs) \/ cs[j] \notin DigitSet THEN Fail
     ELSE LET e == IF cs[j] = "0" THEN j + 1 ELSE ScanDigits(cs, j)
              n == StrToInt(SubSeq(cs, j, e - 1))
          IN Ok(JNum(IF neg THEN 0 - n ELSE n), e)

RECURSIVE ScanOnce(_, _)
RECURSIVE ObjectMembers(_, _, _, _)
RECURSIVE ArrayElements(_, _, _)

\* j is at the opening quote of a key
ObjectMembers(cs, j, ks, vs) ==
  LET k == ScanString(cs, j + 1, <<>>)
  IN IF ~k.ok THEN Fail
     ELSE LET c == SkipWs(cs, k.pos)
          IN IF c > Len(cs) \/ cs[c] # ":" THEN Fail
             ELSE LET val == ScanOnce(cs, SkipWs(cs, c + 1))
                  IN IF ~val.ok THEN Fail
                     ELSE LET e == SkipWs(cs, val.pos)
                              kv == DictPut(ks, vs, k.v.s, val.v)
                          IN IF e > Len(cs) THEN Fail
                             ELSE IF cs[e] = "}" THEN Ok(JObj(kv[1], kv[2]), e + 1)
                             ELSE IF cs[e] # "," THEN Fail
                             ELSE LET n == SkipWs(cs, e + 1)
                                  IN IF n > Len(cs) \/ cs[n] # "\"" THEN Fail
                                     ELSE ObjectMembers(cs, n, kv[1], kv[2])

\* i is the position after the opening brace
JSONObject(cs, i) ==
  LET j == SkipWs(cs, i)
  IN IF j > Len(cs) THEN Fail
     ELSE IF cs[j] = "}" THEN Ok(JObj(<<>>, <<>>), j + 1)
     ELSE IF cs[j] # "\"" THEN Fail
     ELSE ObjectMembers(cs, j, <<>>, <<>>)

\* j is at the first character of an element
ArrayElements(cs, j, vs) ==
  LET val == ScanOnce(cs, j)
  IN IF ~val.ok THEN Fail
     ELSE LET e == SkipWs(cs, val.pos)
          IN IF e > Len(cs) THEN Fail
             ELSE IF cs[e] = "]" THEN Ok(JArr(Append(vs, val.v)), e + 1)
             ELSE IF cs[e] # "," THEN Fail
             ELSE ArrayElements(cs, SkipWs(cs, e + 1), Append(vs, val.v))

\* i is the position after the opening bracket
JSONArray(cs, i) ==
  LET j == SkipWs(cs, i)
  IN IF j > Len(cs) THEN Fail
     ELSE IF cs[j] = "]" THEN Ok(JArr(<<>>), j + 1)
     ELSE ArrayElements(cs, j, <<>>)

ScanOnce(cs, i) ==
  IF i > Len(cs) THEN Fail
  ELSE CASE cs[i] = "\"" -> ScanString(cs, i + 1, <<>>)
         [] cs[i] = "{" -> JSONObject(cs, i + 1)
         [] cs[i] = "[" -> JSONArray(cs, i + 1)
         [] MatchAt(cs, i, <<"n", "u", "l", "l">>) -> Ok(JNull, i + 4)
         [] MatchAt(cs, i, <<"t", "r", "u", "e">>) -> Ok(JTrue, i + 4)
         [] MatchAt(cs, i, <<"f", "a", "l", "s", "e">>) -> Ok(JFalse, i + 5)
         [] cs[i] = "-" \/ cs[i] \in DigitSet -> ScanNumber(cs, i)
         [] OTHER -> Fail

\* json.loads(cs): ok is FALSE where Python raises json.JSONDecodeError
json_loads(cs) ==
  LET r == ScanOnce(cs, SkipWs(cs, 1))
  IN IF ~r.ok THEN Fail
     ELSE IF SkipWs(cs, r.pos) <= Len(cs) THEN Fail
     ELSE r

\* ------------------------------------------------------------------ extractor

RawKey == <<"r", "a", "w">>
\* {"raw": text}
Raw(txt) == JObj(<<RawKey>>, <<JStr(txt)>>)

RECURSIVE ScanBraces_FirstClose(_, _, _, _)
\* ScanBraces without the depth count: the candidate ends at the first closing brace
ScanBraces_FirstClose(txt, json_start, i, brace_count) ==
  IF json_start + i >= Len(txt) THEN -1
  ELSE IF txt[json_start + i + 1] = "}" THEN json_start + i + 1
  ELSE ScanBraces_FirstClose(txt, json_start, i + 1, brace_count)

RECURSIVE ScanBraces_OutsideStrings(_, _, _, _)
\* ScanBraces tracking string literals: a brace between quotes is not counted
ScanBraces_OutsideStrings(txt, json_start, i, brace_count) ==
  IF json_start + i >= Len(txt) THEN -1
  ELSE LET pos == json_start + i + 1
           char == txt[pos]
           quotes == {k \in (json_start + 1)..(pos - 1) :
                        txt[k] = "\"" /\ (k = 1 \/ txt[k - 1] # "\\")}
           count == IF Cardinality(quotes) % 2 = 1 THEN brace_count
                    ELSE IF char = "{" THEN brace_count + 1
                    ELSE IF char = "}" THEN brace_count - 1
                    ELSE brace_count
       IN IF count = 0 THEN pos
          ELSE ScanBraces_OutsideStrings(txt, json_start, i + 1, count)

RECURSIVE ScanBraces(_, _, _, _)
\* the for loop of parse_json_from_llm: i is the 0-based offset into
\* text[json_start:], brace_count the count before character i is read.
\* The value is json_end, -1 when the loop runs off the end.
ScanBraces(txt, json_start, i, brace_count) ==
  IF json_start + i >= Len(txt) THEN -1
  ELSE LET char == txt[json_start + i + 1]
           count == IF char = "{" THEN brace_count + 1
                    ELSE IF char = "}" THEN brace_count - 1
                    ELSE brace_count
       IN IF count = 0 THEN json_start + i + 1
          ELSE ScanBraces(txt, json_start, i + 1, count)

\* parse_json_from_llm taking everything up to the last closing brace
parse_json_from_llm_Greedy(txt) ==
  LET json_start == Find(txt, "{")
      closes == {i \in 1..Len(txt) : txt[i] = "}"}
  IN IF json_start = -1 \/ closes = {} THEN Raw(txt)
     ELSE LET json_end == CHOOSE i \in closes : \A j \in closes : j <= i
              r == json_loads(SubSeq(txt, json_start + 1, json_end))
          IN IF r.ok THEN r.v ELSE Raw(txt)

\* parse_json_from_llm wrapping the candidate, not the text, when it is not JSON
parse_json_from_llm_RawCandidate(txt) ==
  LET json_start == Find(txt, "{")
  IN IF json_start = -1 THEN Raw(txt)
     ELSE LET json_end == ScanBraces(txt, json_start, 0, 0)
          IN IF json_end = -1 THEN Raw(txt)
             ELSE LET json_str == SubSeq(txt, json_start + 1, json_end)
                      r == json_loads(json_str)
                  IN IF r.ok THEN r.v ELSE Raw(json_str)

parse_json_from_llm(txt) ==
  LET json_start == Find(txt, "{")
  IN IF json_start = -1 THEN Raw(txt)
     ELSE LET json_end == ScanBraces(txt, json_start, 0, 0)
          IN IF json_end = -1 THEN Raw(txt)
             ELSE LET json_str == SubSeq(txt, json_start + 1, json_end)
                      r == json_loads(json_str)
                  IN IF r.ok THEN r.v ELSE Raw(txt)

\* ------------------------------------------------------------------ literals

ErrorTag == <<"[", "E", "R", "R", "O", "R", "]">>
S_gemini == <<"g", "e", "m", "i", "n", "i">>
S_groq == <<"g", "r", "o", "q">>
S_ollama == <<"o", "l", "l", "a", "m", "a">>
K_candidates == <<"c", "a", "n", "d", "i", "d", "a", "t", "e", "s">>
K_content == <<"c", "o", "n", "t", "e", "n", "t">>
K_parts == <<"p", "a", "r", "t", "s">>
K_text == <<"t", "e", "x", "t">>
K_choices == <<"c", "h", "o", "i", "c", "e", "s">>
K_message == <<"m", "e", "s", "s", "a", "g", "e">>
K_response == <<"r", "e", "s", "p", "o", "n", "s", "e">>
MsgTimedOut == <<"R", "e", "a", "d", " ", "t", "i", "m", "e", "d", " ", "o", "u", "t", ".">>
MsgRefused == <<"C", "o", "n", "n", "e", "c", "t", "i", "o", "n", " ", "r", "e", "f", "u", "s", "e", "d">>
MsgNameResolution == <<"N", "a", "m", "e", " ", "o", "r", " ", "s", "e", "r", "v", "i", "c", "e", " ", "n", "o", "t", " ", "k", "n", "o", "w", "n">>
MsgAttributeError == <<"o", "b", "j", "e", "c", "t", " ", "h", "a", "s", " ", "n", "o", " ", "a", "t", "t", "r", "i", "b", "u", "t", "e">>
MsgTypeError == <<"o", "b", "j", "e", "c", "t", " ", "i", "s", " ", "n", "o", "t", " ", "s", "u", "b", "s", "c", "r", "i", "p", "t", "a", "b", "l", "e">>
MsgIndexError == <<"i", "n", "d", "e", "x", " ", "o", "u", "t", " ", "o", "f", " ", "r", "a", "n", "g", "e">>
MsgJoinTypeError == <<"s", "e", "q", "u", "e", "n", "c", "e", " ", "i", "t", "e", "m", " ", "0", ":", " ", "e", "x", "p", "e", "c", "t", "e", "d", " ", "s", "t", "r", " ", "i", "n", "s", "t", "a", "n", "c", "e">>
MsgNotIterable == <<"o", "b", "j", "e", "c", "t", " ", "i", "s", " ", "n", "o", "t", " ", "i", "t", "e", "r", "a", "b", "l", "e">>
MsgJSONDecodeError == <<"E", "x", "p", "e", "c", "t", "i", "n", "g", " ", "v", "a", "l", "u", "e", ":", " ", "l", "i", "n", "e", " ", "1", " ", "c", "o", "l", "u", "m", "n", " ", "1", " ", "(", "c", "h", "a", "r", " ", "0", ")">>
MsgClientError == <<" ", "C", "l", "i", "e", "n", "t", " ", "E", "r", "r", "o", "r">>
MsgServerError == <<" ", "S", "e", "r", "v", "e", "r", " ", "E", "r", "r", "o", "r">>
T_GeminiKeyNotSet == <<" ", "G", "E", "M", "I", "N", "I", "_", "A", "P", "I", "_", "K", "E", "Y", " ", "n", "o", "t", " ", "s", "e", "t", ".">>
T_GroqKeyNotSet == <<" ", "G", "R", "O", "Q", "_", "A", "P", "I", "_", "K", "E", "Y", " ", "n", "o", "t", " ", "s", "e", "t", ".">>
T_GeminiKeyMissing == <<" ", "G", "E", "M", "I", "N", "I", "_", "A", "P", "I", "_", "K", "E", "Y", " ", "m", "i", "s", "s", "i", "n", "g", ".">>
T_GroqKeyMissing == <<" ", "G", "R", "O", "Q", "_", "A", "P", "I", "_", "K", "E", "Y", " ", "m", "i", "s", "s", "i", "n", "g", ".">>
T_GeminiHTTP == <<" ", "G", "e", "m", "i", "n", "i", " ", "H", "T", "T", "P", " ">>
T_GroqHTTP == <<" ", "G", "r", "o", "q", " ", "H", "T", "T", "P", " ">>
T_OllamaHTTP == <<" ", "O", "l", "l", "a", "m", "a", " ", "H", "T", "T", "P", " ">>
T_GeminiFailure == <<" ", "G", "e", "m", "i", "n", "i", " ", "f", "a", "i", "l", "u", "r", "e", ":", " ">>
T_GroqFailure == <<" ", "G", "r", "o", "q", " ", "f", "a", "i", "l", "u", "r", "e", ":", " ">>
T_OllamaFailure == <<" ", "O", "l", "l", "a", "m", "a", " ", "f", "a", "i", "l", "u", "r", "e", ":", " ">>
T_GeminiCallFailed == <<" ", "G", "e", "m", "i", "n", "i", " ", "c", "a", "l", "l", " ", "f", "a", "i", "l", "e", "d", ":", " ">>
T_GroqCallFailed == <<" ", "G", "r", "o", "q", " ", "c", "a", "l", "l", " ", "f", "a", "i", "l", "e", "d", ":", " ">>
T_OllamaCallFailed == <<" ", "O", "l", "l", "a", "m", "a", " ", "c", "a", "l", "l", " ", "f", "a", "i", "l", "e", "d", ":", " ">>
Hello == <<"H", "e", "l", "l", "o", ",", " ">>
World == <<"w", "o", "r", "l", "d", ".">>
PaddedHi == <<" ", "H", "i", "\n">>
Html == <<"<", "h", "t", "m", "l", ">", "B", "a", "d", " ", "G", "a", "t", "e", "w", "a", "y", "<", "/", "h", "t", "m", "l", ">">>
ErrBody == <<"{", "\"", "e", "r", "r", "o", "r", "\"", ":", " ", "{", "\"", "c", "o", "d", "e", "\"", ":", " ", "4", "0", "0", "}", "}">>
P_Gemini == <<"G", "e", "m", "i", "n", "i">>
P_GROQ == <<"G", "R", "O", "Q">>
P_groq_sp == <<" ", "g", "r", "o", "q", " ">>
P_Ollama_nl == <<"O", "l", "l", "a", "m", "a", "\n">>
P_openai == <<"o", "p", "e", "n", "a", "i">>
P_gemini_sp == <<"g", "e", "m", "i", "n", "i", " ">>
PromptA == <<"W", "h", "y", "?">>
PromptB == <<"R", "e", "t", "u", "r", "n", " ", "{", "\"", "a", "\"", ":", "1", "}">>

\* ------------------------------------------------------------------ Python on JSON-born values
\* An operand that is a raised exception makes the whole expression raise it.

EmptyDict == JObj(<<>>, <<>>)
HasKey(d, key) == \E i \in 1..Len(d.ks) : d.ks[i] = key
Lookup(d, key) == d.vs[CHOOSE i \in 1..Len(d.ks) : d.ks[i] = key]

\* v.get(key, default)
PyGet(v, key, default) ==
  IF IsExc(v) THEN v
  ELSE IF ~IsDict(v) THEN Exc(MsgAttributeError)
  ELSE IF HasKey(v, key) THEN Lookup(v, key)
  ELSE default

\* v[key] for a str key
PyItem(v, key) ==
  IF IsExc(v) THEN v
  ELSE IF ~IsDict(v) THEN Exc(MsgTypeError)
  ELSE IF HasKey(v, key) THEN Lookup(v, key)
  ELSE Exc(<<"'">> \o key \o <<"'">>)

\* v[0]
PyIndex0(v) ==
  IF IsExc(v) THEN v
  ELSE CASE v.t = "arr" -> IF v.vs = <<>> THEN Exc(MsgIndexError) ELSE v.vs[1]
         [] v.t = "str" -> IF v.s = <<>> THEN Exc(MsgIndexError) ELSE JStr(<<v.s[1]>>)
         [] v.t = "obj" -> Exc(<<"0">>)
         [] OTHER -> Exc(MsgTypeError)

\* a or b
PyOr(a, b) == IF IsExc(a) THEN a ELSE IF Truthy(a) THEN a ELSE b

\* v.strip()
PyStrip(v) ==
  IF IsExc(v) THEN v
  ELSE IF IsStr(v) THEN JStr(strip(v.s))
  ELSE Exc(MsgAttributeError)

\* the items "for p in v" visits: the sequence, or the exception raised
PyIter(v) ==
  IF IsExc(v) THEN v
  ELSE CASE v.t = "arr" -> v
         [] v.t = "str" -> JArr([i \in 1..Len(v.s) |-> JStr(<<v.s[i]>>)])
         [] v.t = "obj" -> JArr([i \in 1..Len(v.ks) |-> JStr(v.ks[i])])
         [] OTHER -> Exc(MsgNotIterable)

\* "".join(texts)
PyJoin(texts) ==
  IF \E i \in 1..Len(texts) : ~IsStr(texts[i]) THEN Exc(MsgJoinTypeError)
  ELSE JStr(Join([i \in 1..Len(texts) |-> texts[i].s]))

\* ------------------------------------------------------------------ the network

Transport(msg) == [kind |-> "transport", status |-> 0, text |-> <<>>, msg |-> msg]
Http(status, body) == [kind |-> "http", status |-> status, text |-> body, msg |-> <<>>]
NoResp == [kind |-> "none", status |-> 0, text |-> <<>>, msg |-> <<>>]

\* r.raise_for_status() raises requests.HTTPError
RaisesForStatus(r) == r.status >= 400 /\ r.status < 600
\* str(e) of that HTTPError
HTTPErrorMessage(r) ==
  IntToStr(r.status) \o (IF r.status < 500 THEN MsgClientError ELSE MsgServerError)
\* r.json(): the decoded body, or the exception raised
ResponseJson(r) ==
  LET d == json_loads(r.text)
  IN IF d.ok THEN d.v ELSE Exc(MsgJSONDecodeError)

Req(to, auth, key, model, body, temperature, max_tokens, timeout, p) ==
  [to |-> to, auth |-> auth, key |-> key, model |-> model, body |-> body,
   temperature |-> temperature, max_tokens |-> max_tokens, timeout |-> timeout,
   prompt |-> p]

\* what a router has done by the time it returns or blocks on requests.post
Returned(a, v) == [adapter |-> a, sent |-> <<>>, ret |-> v]
Sent(a, req) == [adapter |-> a, sent |-> <<req>>, ret |-> NoVal]

\* kwargs.get(key, default)
KwGet(kw, key, default) ==
  IF \E e \in kw : e[1] = key THEN (CHOOSE e \in kw : e[1] = key)[2] ELSE default

\* ------------------------------------------------------------------ llm_providers.py
\* Temperatures are in tenths.

\* call_gemini without the guard on GEMINI_API_KEY
call_gemini_NoKeyCheck(p, max_tokens, temperature) ==
  Sent("gemini",
       Req("https://generativelanguage.googleapis.com/v1beta/models/{GEMINI_MODEL}:generateContent",
           "key", cfg.GEMINI_API_KEY, "gemini-1.5-flash",
           {"contents", "generationConfig"}, temperature, max_tokens, 60, p))

call_gemini(p, max_tokens, temperature) ==
  IF cfg.GEMINI_API_KEY = <<>> THEN Returned("gemini", JStr(ErrorTag \o T_GeminiKeyNotSet))
  ELSE Sent("gemini",
            Req("https://generativelanguage.googleapis.com/v1beta/models/{GEMINI_MODEL}:generateContent",
                "key", cfg.GEMINI_API_KEY, "gemini-1.5-flash",
                {"contents", "generationConfig"}, temperature, max_tokens, 60, p))

RECURSIVE GeminiTexts(_)
\* the loop over parts: the texts list
GeminiTexts(parts) ==
  IF parts = <<>> THEN <<>>
  ELSE LET part == Head(parts)
       IN (IF IsDict(part) /\ HasKey(part, K_text) THEN <<Lookup(part, K_text)>>
           ELSE IF IsStr(part) THEN <<part>>
           ELSE <<>>) \o GeminiTexts(Tail(parts))

\* call_gemini from requests.post on
call_gemini_reply(r) ==
  IF r.kind = "transport" THEN JStr(ErrorTag \o T_GeminiFailure \o r.msg)
  ELSE IF RaisesForStatus(r)
  THEN JStr(ErrorTag \o T_GeminiHTTP \o IntToStr(r.status) \o <<":", " ">> \o r.text)
  ELSE LET data == ResponseJson(r)
           cand == PyIndex0(PyOr(PyGet(data, K_candidates, JNull), JArr(<<EmptyDict>>)))
           parts == PyOr(PyGet(PyOr(PyGet(cand, K_content, JNull), EmptyDict), K_parts, JNull),
                         JArr(<<>>))
           items == PyIter(parts)
           joined == IF IsExc(items) THEN items ELSE PyJoin(GeminiTexts(items.vs))
           v == PyOr(PyStrip(joined), JStr(Truncate(json_dumps(data), 2000)))
       IN IF IsExc(v) THEN JStr(ErrorTag \o T_GeminiFailure \o v.s) ELSE v

call_groq(p, temperature) ==
  IF cfg.GROQ_API_KEY = <<>> THEN Returned("groq", JStr(ErrorTag \o T_GroqKeyNotSet))
  ELSE Sent("groq",
            Req("https://api.groq.com/openai/v1/chat/completions",
                "bearer", cfg.GROQ_API_KEY, "llama3-70b-8192",
                {"model", "messages:user", "temperature"}, temperature, 0, 60, p))

\* call_groq from requests.post on
call_groq_reply(r) ==
  IF r.kind = "transport" THEN JStr(ErrorTag \o T_GroqFailure \o r.msg)
  ELSE IF RaisesForStatus(r)
  THEN JStr(ErrorTag \o T_GroqHTTP \o IntToStr(r.status) \o <<":", " ">> \o r.text)
  ELSE LET data == ResponseJson(r)
           v == PyStrip(PyItem(PyItem(PyIndex0(PyItem(data, K_choices)), K_message), K_content))
       IN IF IsExc(v) THEN JStr(ErrorTag \o T_GroqFailure \o v.s) ELSE v

call_ollama(p) ==
  Sent("ollama",
       Req("{OLLAMA_HOST}/api/generate", "none", <<>>, "llama3",
           {"model", "prompt", "stream"}, 0, 0, 120, p))

\* call_ollama from requests.post on
call_ollama_reply(r) ==
  IF r.kind = "transport" THEN JStr(ErrorTag \o T_OllamaFailure \o r.msg)
  ELSE IF RaisesForStatus(r)
  THEN JStr(ErrorTag \o T_OllamaHTTP \o IntToStr(r.status) \o <<":", " ">> \o r.text)
  ELSE LET data == ResponseJson(r)
           v == PyOr(PyStrip(PyOr(PyGet(data, K_response, JNull), JStr(<<>>))),
                     JStr(Truncate(json_dumps(data), 2000)))
       IN IF IsExc(v) THEN JStr(ErrorTag \o T_OllamaFailure \o v.s) ELSE v

\* the router: llm is a str or None
call_llm(l, p, kw) ==
  LET name == strip(lower(IF Truthy(l) THEN l.s ELSE <<>>))
  IN IF name = S_groq THEN call_groq(p, KwGet(kw, "temperature", 3))
     ELSE IF name = S_ollama THEN call_ollama(p)
     ELSE call_gemini(p, KwGet(kw, "max_tokens", 1024), KwGet(kw, "temperature", 3))

call_llm_reply(a, r) ==
  CASE a = "gemini" -> call_gemini_reply(r)
    [] a = "groq" -> call_groq_reply(r)
    [] a = "ollama" -> call_ollama_reply(r)

\* ------------------------------------------------------------------ main.py

\* llm_generate up to requests.post
llm_generate(p, provider) ==
  IF provider = JStr(S_gemini)
  THEN IF cfg.GEMINI_API_KEY = <<>> THEN Returned("gemini", JStr(ErrorTag \o T_GeminiKeyMissing))
       ELSE Sent("gemini",
                 Req("https://generativelanguage.googleapis.com/v1beta/models/{GEMINI_MODEL}:generateContent",
                     "key", cfg.GEMINI_API_KEY, "gemini-1.5-flash",
                     {"contents", "generationConfig"}, 4, 8192, 300, p))
  ELSE IF provider = JStr(S_groq)
  THEN IF cfg.GROQ_API_KEY = <<>> THEN Returned("groq", JStr(ErrorTag \o T_GroqKeyMissing))
       ELSE Sent("groq",
                 Req("https://api.groq.com/openai/v1/chat/completions",
                     "bearer", cfg.GROQ_API_KEY, "llama-3.1-70b-versatile",
                     {"model", "messages:system,user", "temperature", "max_tokens"},
                     4, 8192, 300, p))
  ELSE Sent("ollama",
            Req("{OLLAMA_HOST}/api/generate", "none", <<>>, "llama3.1",
                {"model", "prompt", "options", "stream"}, 4, 0, 300, p))

\* the exception, if any, that requests.post or raise_for_status raises
PostRaises(r) ==
  IF r.kind = "transport" THEN Exc(r.msg)
  ELSE IF RaisesForStatus(r) THEN Exc(HTTPErrorMessage(r))
  ELSE NoVal

\* llm_generate whose except clauses return the bare exception message
llm_generate_reply_BareMessage(a, r) ==
  LET data == IF IsExc(PostRaises(r)) THEN PostRaises(r) ELSE ResponseJson(r)
      v == CASE a = "gemini" ->
                  PyGet(PyIndex0(PyGet(PyGet(PyIndex0(PyGet(data, K_candidates, JArr(<<EmptyDict>>))),
                                             K_content, EmptyDict),
                                       K_parts, JArr(<<EmptyDict>>))),
                        K_text, JStr(<<>>))
             [] a = "groq" ->
                  PyGet(PyGet(PyIndex0(PyGet(data, K_choices, JArr(<<EmptyDict>>))),
                              K_message, EmptyDict),
                        K_content, JStr(<<>>))
             [] a = "ollama" -> PyGet(data, K_response, JStr(<<>>))
  IN IF IsExc(v) THEN JStr(v.s) ELSE v

\* llm_generate from requests.post on, in the branch of adapter a
llm_generate_reply(a, r) ==
  LET data == IF IsExc(PostRaises(r)) THEN PostRaises(r) ELSE ResponseJson(r)
      v == CASE a = "gemini" ->
                  PyGet(PyIndex0(PyGet(PyGet(PyIndex0(PyGet(data, K_candidates, JArr(<<EmptyDict>>))),
                                             K_content, EmptyDict),
                                       K_parts, JArr(<<EmptyDict>>))),
                        K_text, JStr(<<>>))
             [] a = "groq" ->
                  PyGet(PyGet(PyIndex0(PyGet(data, K_choices, JArr(<<EmptyDict>>))),
                              K_message, EmptyDict),
                        K_content, JStr(<<>>))
             [] a = "ollama" -> PyGet(data, K_response, JStr(<<>>))
      failed == CASE a = "gemini" -> T_GeminiCallFailed
                  [] a = "groq" -> T_GroqCallFailed
                  [] a = "ollama" -> T_OllamaCallFailed
  IN IF IsExc(v) THEN JStr(ErrorTag \o failed \o v.s) ELSE v

\* ------------------------------------------------------------------ extractor inputs

FreeAlphabet == {"{", "}", "\"", "a", ":", "1"}
\* every text over FreeAlphabet of at most MaxFreeLen characters
FreeTexts == UNION {[1..n -> FreeAlphabet] : n \in 0..MaxFreeLen}

Atoms ==
  {JNull, JTrue, JFalse, JNum(0), JNum(12), JNum(0 - 3),
   JStr(<<>>), JStr(<<"a">>), JStr(<<"{">>), JStr(<<"}">>),
   JStr(<<"{", "b", "}">>), JStr(<<"a", "\"">>)}
SmallAtoms == {JNum(1), JStr(<<"}">>)}

RECURSIVE Values(_)
\* JSON values nested at most d deep
Values(d) ==
  IF d = 0 THEN Atoms
  ELSE LET prev == Values(d - 1)
       IN prev
          \cup {JObj(<<>>, <<>>), JArr(<<>>), JObj(<< <<"}">> >>, <<JNum(1)>>)}
          \cup {JObj(<< <<"a">> >>, <<v>>) : v \in prev}
          \cup {JArr(<<v>>) : v \in prev}
          \cup {JObj(<< <<"a">>, <<"b">> >>, <<u, v>>) : u \in SmallAtoms, v \in prev}
          \cup {JArr(<<u, v>>) : u \in SmallAtoms, v \in prev}

\* text before the object: no opening brace in it
Prefixes == {<<>>, <<"O", "K", "}", ":", " ">>}
\* text after the object: anything
Suffixes == {<<>>, <<" ", "o", "k">>, <<"}">>, <<" ", "{", "\"", "b", "\"", ":", "2", "}">>}

\* a string value with a balanced pair of braces in it
CurlyText ==
  <<"u", "s", "e", "s", " ", "{", "c", "u", "r", "l", "y", "}", " ", "b", "r", "a", "c", "e", "s">>
K_description == <<"d", "e", "s", "c", "r", "i", "p", "t", "i", "o", "n">>
\* objects with a field holding CurlyText: alone, beside other fields, nested,
\* and beside a field with a lone closing brace
CurlyObjects ==
  {JObj(<<K_description>>, <<JStr(CurlyText)>>),
   JObj(<< <<"a">>, K_description >>, <<JNum(1), JStr(CurlyText)>>),
   JObj(<< K_description, <<"b">> >>, <<JStr(CurlyText), JObj(<< <<"a">> >>, <<JNum(12)>>)>>),
   JObj(<< <<"a">> >>, <<JObj(<<K_description>>, <<JStr(CurlyText)>>)>>),
   JObj(<< <<"a">>, K_description >>, <<JStr(<<"}">>), JStr(CurlyText)>>)}

RECURSIVE HasBrace(_)
\* some string literal of v (a key or a value) holds a brace character
HasBrace(v) ==
  CASE v.t = "str" -> \E i \in 1..Len(v.s) : v.s[i] \in {"{", "}"}
    [] v.t = "arr" -> \E i \in 1..Len(v.vs) : HasBrace(v.vs[i])
    [] v.t = "obj" -> \E i \in 1..Len(v.ks) :
                         \/ \E j \in 1..Len(v.ks[i]) : v.ks[i][j] \in {"{", "}"}
                         \/ HasBrace(v.vs[i])
    [] OTHER -> FALSE

Wrapped(p, X, s, compact) ==
  [kind |-> "wrapped", p |-> p, X |-> X, s |-> s, compact |-> compact]
Free == [kind |-> "free", p |-> <<>>, X |-> JNull, s |-> <<>>, compact |-> FALSE]

\* the text an input stands for
TextOf(in, free) ==
  IF in.kind = "free" THEN free
  ELSE in.p \o (IF in.compact THEN Minified(in.X) ELSE json_dumps(in.X)) \o in.s

\* ------------------------------------------------------------------ route-handler state

Requests == 1..MaxRequests

\* str(uuid.uuid4()): one identifier per request, no two alike
CaseId(q) == <<"c", "a", "s", "e", "-">> \o IntToStr(q)
\* os.path.join(REPORTS_DIR, f"report_{case_id}.html")
ReportPath(case_id) ==
  <<"r", "e", "p", "o", "r", "t", "s", "/", "r", "e", "p", "o", "r", "t", "_">>
    \o case_id \o <<".", "h", "t", "m", "l">>

\* a handler's locals: hpc its position, left the llm_generate calls still to
\* make, raw_rec and rec as in the code
Request(hpc, handler, left, raw_rec, rec) ==
  [hpc |-> hpc, handler |-> handler, left |-> left, raw_rec |-> raw_rec, rec |-> rec]

\* a report file with nothing rendered in it: "absent", "empty" or "partial"
NoFile(state) ==
  [state |-> state,
   html |-> [title |-> "none", analysis_type |-> "none", recommendation |-> NoVal,
             plan_json |-> <<>>]]

\* no request has arrived, no report written, table cases empty
HandlersParked ==
  /\ reqs = [q \in Requests |-> Request("none", "none", 0, NoVal, NoVal)]
  /\ files = [f \in {ReportPath(CaseId(q)) : q \in Requests} |-> NoFile("absent")]
  /\ cases = {}

\* ------------------------------------------------------------------ extractor machine

RouterParked ==
  /\ cfg = [GEMINI_API_KEY |-> <<>>, GROQ_API_KEY |-> <<>>,
            DEFAULT_PROVIDER |-> <<"o", "l", "l", "a", "m", "a">>]
  /\ pc = "idle"
  /\ impl = "none"
  /\ llm = NoVal
  /\ prompt = <<>>
  /\ kwargs = {}
  /\ adapter = "none"
  /\ outbox = <<>>
  /\ resp = NoResp
  /\ ret = NoVal

InitExtract ==
  /\ RouterParked
  /\ \/ /\ src = Free
        /\ text \in FreeTexts
     \/ /\ src \in {Wrapped(p, X, s, c) : p \in Prefixes,
                                          X \in Values(MaxDepth) \cup CurlyObjects,
                                          s \in Suffixes, c \in BOOLEAN}
        /\ text = TextOf(src, <<>>)
  /\ ppc = "ready"
  /\ parsed = NoVal
  /\ HandlersParked

\* one call parse_json_from_llm(text)
Extract ==
  /\ ppc = "ready"
  /\ parsed' = parse_json_from_llm(text)
  /\ ppc' = "done"
  /\ UNCHANGED <<src, text>>
  /\ UNCHANGED routerVars
  /\ UNCHANGED <<reqs, files, cases>>

NextExtract == Extract

SpecExtract == InitExtract /\ [][NextExtract]_vars

\* ------------------------------------------------------------------ extractor claims

\* the input is exactly one serialization, nothing before or after it
Pure == src.kind = "wrapped" /\ src.p = <<>> /\ src.s = <<>>
\* the serialization the input was built around
Payload == IF src.compact THEN Minified(src.X) ELSE json_dumps(src.X)

\* C2 as stated: for any JSON-representable X, parse_json_from_llm applied to
\* json.dumps(X) returns X.
C2_RoundTripAnyValue ==
  (ppc = "done" /\ Pure /\ ~src.compact) => parsed = src.X

\* C2 amended: for any JSON object X (nested objects and arrays allowed) whose
\* string literals, keys and values, hold no brace character,
\* parse_json_from_llm applied to the serialization of X returns X.
C2_RoundTripObject ==
  (ppc = "done" /\ Pure /\ IsDict(src.X) /\ ~HasBrace(src.X)) => parsed = src.X

\* C2 witness: a nested object with an escaped quote in it came back whole.
C2_Witness ==
  /\ ppc = "done" /\ Pure /\ ~src.compact
  /\ src.X = JObj(<< <<"a">>, <<"b">> >>,
                  <<JNum(1), JObj(<< <<"a">> >>, <<JStr(<<"a", "\"">>)>>)>>)
  /\ parsed = src.X

\* C3: for text p + J + s, p without an opening brace, J the serialization of
\* an object whose string literals hold no brace, s arbitrary, the result is
\* the object J denotes, and the candidate ends where J ends, whatever s is.
C3_ObjectRecovered ==
  (ppc = "done" /\ src.kind = "wrapped" /\ IsDict(src.X) /\ ~HasBrace(src.X))
    => /\ parsed = src.X
       /\ ScanBraces(text, Find(text, "{"), 0, 0) = Len(src.p) + Len(Payload)
       /\ parsed = parse_json_from_llm(src.p \o Payload)

\* C3 witness: prose with a closing brace before, a second object after, and
\* the first, nested, object recovered.
C3_Witness ==
  /\ ppc = "done" /\ src.kind = "wrapped"
  /\ src.p = <<"O", "K", "}", ":", " ">>
  /\ src.s = <<" ", "{", "\"", "b", "\"", ":", "2", "}">>
  /\ src.X = JObj(<< <<"a">> >>, <<JObj(<< <<"a">> >>, <<JNum(12)>>)>>)
  /\ parsed = src.X

NoOpenBrace(txt) == \A i \in 1..Len(txt) : txt[i] # "{"
FirstOpen(txt) == CHOOSE i \in 1..Len(txt) : txt[i] = "{" /\ \A j \in 1..(i - 1) : txt[j] # "{"
\* opening minus closing braces among txt[a..b]
Depth(txt, a, b) ==
  Cardinality({i \in a..b : txt[i] = "{"}) - Cardinality({i \in a..b : txt[i] = "}"})
NeverBalanced(txt) ==
  /\ ~NoOpenBrace(txt)
  /\ \A j \in FirstOpen(txt)..Len(txt) : Depth(txt, FirstOpen(txt), j) # 0
\* the first position at which the depth is back to zero
BalancedAt(txt) ==
  CHOOSE j \in FirstOpen(txt)..Len(txt) :
    /\ Depth(txt, FirstOpen(txt), j) = 0
    /\ \A k \in FirstOpen(txt)..(j - 1) : Depth(txt, FirstOpen(txt), k) # 0
BadCandidate(txt) ==
  /\ ~NoOpenBrace(txt)
  /\ ~NeverBalanced(txt)
  /\ ~json_loads(SubSeq(txt, FirstOpen(txt), BalancedAt(txt))).ok

\* C4: the result is exactly {"raw": text} when text has no opening brace,
\* when the depth counted from the first one never returns to zero, and when
\* the balanced candidate is not JSON.
C4_RawFallback ==
  (ppc = "done" /\ (NoOpenBrace(text) \/ NeverBalanced(text) \/ BadCandidate(text)))
    => parsed = Raw(text)

\* C4 witness: a balanced candidate that is not JSON, with text after it.
C4_Witness ==
  /\ ppc = "done"
  /\ BadCandidate(text)
  /\ BalancedAt(text) < Len(text)
  /\ parsed = Raw(text)

\* ------------------------------------------------------------------ router inputs

\* values the environment can hold for an API key and for DEFAULT_PROVIDER
EnvKeys == {<<>>, <<" ">>, <<"k", "1">>}
EnvDefaultProviders == {S_ollama, P_Gemini, S_groq, P_openai, P_gemini_sp}

\* the provider argument: a str, or None
ProviderArgs ==
  {JStr(S_ollama), JStr(S_gemini), JStr(S_groq), JStr(P_Gemini), JStr(P_GROQ),
   JStr(P_groq_sp), JStr(P_Ollama_nl), JStr(P_openai), JStr(<<>>), JNull}
Prompts == {PromptA, PromptB}
KwargsChoices == {{}, {<<"temperature", 7>>, <<"max_tokens", 256>>}}

TextPart(cs) == JObj(<<K_text>>, <<JStr(cs)>>)
GeminiBody(parts) ==
  JObj(<<K_candidates>>,
       <<JArr(<<JObj(<<K_content>>, <<JObj(<<K_parts>>, <<parts>>)>>)>>)>>)
GroqBody(c) ==
  JObj(<<K_choices>>, <<JArr(<<JObj(<<K_message>>, <<JObj(<<K_content>>, <<c>>)>>)>>)>>)
OllamaBody(c) == JObj(<<K_response>>, <<c>>)

PartTexts == {Hello, World, PaddedHi, <<>>}
\* one to MaxParts parts, each carrying a text
TextPartSeqs == UNION {[1..n -> {TextPart(c) : c \in PartTexts}] : n \in 1..MaxParts}

BodyValues ==
  {GeminiBody(JArr(parts)) : parts \in TextPartSeqs}
  \cup {GeminiBody(c) : c \in {JArr(<<>>), JNull, JStr(World), JArr(<<JStr(World)>>),
                               JArr(<<EmptyDict>>), JArr(<<TextPart(Hello), JObj(<<K_text>>, <<JNull>>)>>),
                               JArr(<<JObj(<<K_text>>, <<JNull>>)>>),
                               JArr(<<JObj(<<K_text>>, <<JNum(5)>>)>>)}}
  \cup {JObj(<<K_candidates>>, <<c>>) : c \in {JArr(<<>>), JNull, JArr(<<JObj(<<K_content>>, <<JNull>>)>>)}}
  \cup {GroqBody(c) : c \in {JStr(PaddedHi), JStr(<<>>), JNull, JNum(5)}}
  \cup {JObj(<<K_choices>>, <<JArr(<<>>)>>)}
  \cup {OllamaBody(c) : c \in {JStr(PaddedHi), JStr(World), JStr(<<>>), JNull, JNum(0), JFalse, JNum(5)}}
  \cup {EmptyDict, JArr(<<>>), JNull, JStr(World)}

\* what can come back for one request
Responses ==
  {Transport(m) : m \in {MsgTimedOut, MsgRefused, MsgNameResolution}}
  \cup {Http(s, b) : s \in {400, 404, 500}, b \in {<<>>, Html, ErrBody}}
  \cup {Http(200, json_dumps(v)) : v \in BodyValues}
  \cup {Http(200, Html), Http(204, <<>>), Http(302, Html)}

\* ------------------------------------------------------------------ router machine

ExtractParked ==
  /\ src = Free
  /\ text = <<>>
  /\ ppc = "ready"
  /\ parsed = NoVal

Init ==
  /\ cfg \in {[GEMINI_API_KEY |-> strip(g), GROQ_API_KEY |-> strip(q), DEFAULT_PROVIDER |-> lower(d)] :
                g \in EnvKeys, q \in EnvKeys, d \in EnvDefaultProviders}
  /\ pc = "idle"
  /\ impl = "none"
  /\ llm = NoVal
  /\ prompt = <<>>
  /\ kwargs = {}
  /\ adapter = "none"
  /\ outbox = <<>>
  /\ resp = NoResp
  /\ ret = NoVal
  /\ ExtractParked
  /\ HandlersParked

\* a caller enters a router, which runs until it returns or blocks on requests.post
Call ==
  /\ pc = "idle"
  /\ \E i \in {"call_llm", "llm_generate"}, p \in Prompts :
       \E l \in (IF i = "call_llm" THEN ProviderArgs
                 ELSE ProviderArgs \cup {JStr(cfg.DEFAULT_PROVIDER)}),
          kw \in (IF i = "call_llm" THEN KwargsChoices ELSE {{}}) :
         LET step == IF i = "call_llm" THEN call_llm(l, p, kw) ELSE llm_generate(p, l)
         IN /\ impl' = i
            /\ llm' = l
            /\ prompt' = p
            /\ kwargs' = kw
            /\ adapter' = step.adapter
            /\ outbox' = outbox \o step.sent
            /\ ret' = step.ret
            /\ pc' = IF step.sent = <<>> THEN "returned" ELSE "awaiting"
  /\ UNCHANGED <<cfg, resp>>
  /\ UNCHANGED extractVars
  /\ UNCHANGED <<reqs, files, cases>>

\* Respond with a retry: a failed request is sent once more
Respond_Retry ==
  /\ pc = "awaiting"
  /\ \E r \in Responses :
       /\ resp' = r
       /\ IF (r.kind = "transport" \/ RaisesForStatus(r)) /\ Len(outbox) < 2
          THEN /\ outbox' = Append(outbox, outbox[1])
               /\ pc' = "awaiting"
               /\ ret' = ret
          ELSE /\ outbox' = outbox
               /\ pc' = "returned"
               /\ ret' = IF impl = "call_llm" THEN call_llm_reply(adapter, r)
                         ELSE llm_generate_reply(adapter, r)
  /\ UNCHANGED <<cfg, impl, llm, prompt, kwargs, adapter>>
  /\ UNCHANGED extractVars
  /\ UNCHANGED <<reqs, files, cases>>

\* requests.post returns or raises, and the router runs to its return
Respond ==
  /\ pc = "awaiting"
  /\ \E r \in Responses :
       /\ resp' = r
       /\ ret' = IF impl = "call_llm" THEN call_llm_reply(adapter, r)
                 ELSE llm_generate_reply(adapter, r)
  /\ pc' = "returned"
  /\ UNCHANGED <<cfg, impl, llm, prompt, kwargs, adapter, outbox>>
  /\ UNCHANGED extractVars
  /\ UNCHANGED <<reqs, files, cases>>

\* the caller takes the value; nothing of the call is kept
Return ==
  /\ pc = "returned"
  /\ pc' = "idle"
  /\ impl' = "none"
  /\ llm' = NoVal
  /\ prompt' = <<>>
  /\ kwargs' = {}
  /\ adapter' = "none"
  /\ outbox' = <<>>
  /\ resp' = NoResp
  /\ ret' = NoVal
  /\ UNCHANGED cfg
  /\ UNCHANGED extractVars
  /\ UNCHANGED <<reqs, files, cases>>

Next == Call \/ Respond \/ Return

Spec == Init /\ [][Next]_vars

\* ------------------------------------------------------------------ router claims

AdapterName(a) ==
  CASE a = "gemini" -> S_gemini
    [] a = "groq" -> S_groq
    [] a = "ollama" -> S_ollama
    [] OTHER -> <<>>
\* a str that begins with [ERROR] and names provider a, in any letter case
IsErrorSentinel(v, a) ==
  /\ IsStr(v)
  /\ StartsWith(v.s, ErrorTag)
  /\ Contains(lower(v.s), AdapterName(a))
\* the API key the selected adapter needs is configured
KeyPreconditionMet ==
  \/ adapter = "ollama"
  \/ adapter = "gemini" /\ cfg.GEMINI_API_KEY # <<>>
  \/ adapter = "groq" /\ cfg.GROQ_API_KEY # <<>>
\* the provider argument lower-cased and trimmed
Normalized(l) == strip(lower(IF IsStr(l) THEN l.s ELSE <<>>))
KnownProviders == {S_ollama, S_gemini, S_groq}

\* C1: whatever the provider string, the prompt and the outcome of the remote
\* call, both routers hand a str back to the caller.
C1_AlwaysReturnsStr ==
  pc = "returned" => IsStr(ret)

\* C5: with gemini or groq selected and its API key empty, the call returns a
\* str that begins with [ERROR] and names the provider, and sends no request.
C5_MissingKeyShortCircuits ==
  (pc = "returned" /\ adapter \in {"gemini", "groq"} /\ ~KeyPreconditionMet)
    => IsErrorSentinel(ret, adapter) /\ outbox = <<>> /\ resp = NoResp

\* C5 witness: llm_generate with groq and no GROQ_API_KEY.
C5_Witness ==
  /\ pc = "returned" /\ impl = "llm_generate" /\ adapter = "groq"
  /\ cfg.GROQ_API_KEY = <<>>
  /\ outbox = <<>>
  /\ ret = JStr(ErrorTag \o T_GroqKeyMissing)

\* C6: a provider identifier outside {ollama, gemini, groq} makes the router
\* send the request it sends for the configured DEFAULT_PROVIDER.
C6_UnknownUsesDefaultProvider ==
  (pc # "idle" /\ IsStr(llm) /\ Normalized(llm) \notin KnownProviders)
    => outbox = (IF impl = "call_llm"
                 THEN call_llm(JStr(cfg.DEFAULT_PROVIDER), prompt, kwargs)
                 ELSE llm_generate(prompt, JStr(cfg.DEFAULT_PROVIDER))).sent

\* C7: a provider identifier that differs from ollama, gemini or groq only in
\* letter case or surrounding whitespace is dispatched to that provider's adapter.
C7_MatchingIsNormalized ==
  (pc # "idle" /\ Normalized(llm) \in KnownProviders)
    => AdapterName(adapter) = Normalized(llm)

\* C8: when the request fails at transport level, the call returns a str that
\* begins with [ERROR] and names the provider the request went to.
C8_TransportFailureIsSentinel ==
  (pc = "returned" /\ resp.kind = "transport") => IsErrorSentinel(ret, adapter)

\* C8 witness: call_llm's Ollama request timed out.
C8_Witness ==
  /\ pc = "returned" /\ impl = "call_llm" /\ adapter = "ollama"
  /\ resp = Transport(MsgTimedOut)
  /\ ret = JStr(ErrorTag \o T_OllamaFailure \o MsgTimedOut)

\* C9: for a 2xx Gemini response whose first candidate has parts with texts
\* t1..tn, n >= 1, the call returns t1 + ... + tn, every part used.  Stated for
\* the concatenations that are not empty and carry no surrounding whitespace.
C9_GeminiConcatenatesParts ==
  (pc = "returned" /\ adapter = "gemini" /\ resp.kind = "http" /\ resp.status = 200)
    => \A parts \in TextPartSeqs :
         LET cat == Join([i \in 1..Len(parts) |-> Lookup(parts[i], K_text).s])
         IN (resp.text = json_dumps(GeminiBody(JArr(parts))) /\ cat # <<>> /\ strip(cat) = cat)
              => ret = JStr(cat)

\* C10: one generate call sends at most one request: exactly one when the
\* adapter's API-key precondition is met, none otherwise, also once the
\* request has failed, come back non-2xx or timed out.
C10_AtMostOneRequest ==
  /\ Len(outbox) <= 1
  /\ pc \in {"awaiting", "returned"} => Len(outbox) = (IF KeyPreconditionMet THEN 1 ELSE 0)
  /\ pc = "awaiting" => KeyPreconditionMet

\* C10 witness: the one request came back 500 and the call returned.
C10_Witness ==
  /\ pc = "returned"
  /\ resp.kind = "http" /\ resp.status = 500
  /\ Len(outbox) = 1
  /\ IsErrorSentinel(ret, adapter)

\* ------------------------------------------------------------------ sentinel claims

\* C11: every error sentinel a router hands back, those that embed the remote
\* response body or the exception message included, holds no opening brace,
\* and parse_json_from_llm applied to it returns {"raw": sentinel}.
C11_SentinelWrappedRaw ==
  (pc = "returned" /\ IsStr(ret) /\ StartsWith(ret.s, ErrorTag))
    => NoOpenBrace(ret.s) /\ parse_json_from_llm(ret.s) = Raw(ret.s)

\* values of the `response` field that Python takes as false
FalsyCompletions == {JNull, JStr(<<>>), JNum(0), JFalse}
\* a 2xx answer whose object has no `response` field, or a falsy one
NoCompletion(r) ==
  /\ r.kind = "http" /\ r.status = 200
  /\ r.text \in {json_dumps(EmptyDict)} \cup {json_dumps(OllamaBody(c)) : c \in FalsyCompletions}

\* C12: for the Ollama provider, a 2xx answer whose `response` field is absent,
\* null, the empty string, 0 or false makes the call return the empty string.
C12_OllamaFalsyIsEmpty ==
  (pc = "returned" /\ adapter = "ollama" /\ NoCompletion(resp)) => ret = JStr(<<>>)

\* ------------------------------------------------------------------ braces inside strings

\* X is an object with a field whose value is CurlyText, directly or one
\* object down, and no other string of X holds a brace
HasCurlyField(X) ==
  /\ IsDict(X)
  /\ \A i \in 1..Len(X.ks) : \A j \in 1..Len(X.ks[i]) : X.ks[i][j] \notin {"{", "}"}
  /\ \E i \in 1..Len(X.vs) :
       \/ X.vs[i] = JStr(CurlyText)
       \/ X.vs[i] = JObj(<<K_description>>, <<JStr(CurlyText)>>)
  /\ \A i \in 1..Len(X.vs) :
       \/ X.vs[i] = JStr(CurlyText)
       \/ X.vs[i] = JObj(<<K_description>>, <<JStr(CurlyText)>>)
       \/ ~HasBrace(X.vs[i])
\* where the scan of the text stopped, and where the serialization really ends
ScanEnd == ScanBraces(text, Find(text, "{"), 0, 0)
RealEnd == Len(src.p) + Len(Payload)
\* counted over the serialization alone, the depth is back to zero before its last character
DepthDipsEarly == ~NeverBalanced(Payload) /\ BalancedAt(Payload) < Len(Payload)

\* C13 as stated: for an object with a string field holding "uses {curly} braces",
\* the scan ends the candidate somewhere other than the object's closing brace
\* and the object is not recovered.
C13_CurlyMisTerminates ==
  (ppc = "done" /\ src.kind = "wrapped" /\ HasCurlyField(src.X))
    => ScanEnd # RealEnd /\ parsed # src.X

\* C13 amended: the braces of "uses {curly} braces" are balanced, so the scan
\* ends at the object's closing brace and the object is recovered; the scan ends
\* early, inside the object, when the braces inside its strings bring the depth
\* to zero before the closing brace, and the result is then {"raw": text}.
C13_OnlyUnbalancedMisTerminates ==
  /\ (ppc = "done" /\ src.kind = "wrapped" /\ HasCurlyField(src.X))
       => ScanEnd = RealEnd /\ parsed = src.X
  /\ (ppc = "done" /\ src.kind = "wrapped" /\ IsDict(src.X) /\ DepthDipsEarly)
       => /\ ScanEnd = Len(src.p) + BalancedAt(Payload)
          /\ ScanEnd < RealEnd
          /\ parsed = Raw(text)

\* C13 witness: the object with the curly text, prose around it, recovered whole.
C13_Witness ==
  /\ ppc = "done" /\ src.kind = "wrapped"
  /\ src.X = JObj(<<K_description>>, <<JStr(CurlyText)>>)
  /\ src.p = <<"O", "K", "}", ":", " ">>
  /\ src.s = <<" ", "o", "k">>
  /\ ScanEnd = RealEnd
  /\ parsed = src.X

\* ------------------------------------------------------------------ route-handler machine

K_plan_30_60_90 == <<"p", "l", "a", "n", "_", "3", "0", "_", "6", "0", "_", "9", "0">>
\* an object of the kind the prompts ask for
PlanObject == JObj(<<K_plan_30_60_90>>, <<JObj(<< <<"3", "0">> >>, <<JArr(<<>>)>>)>>)

\* what can come back for one request of a handler: the object asked for,
\* prose, and a null completion
HandlerResponses ==
  {Http(200, json_dumps(OllamaBody(JStr(Minified(PlanObject))))),
   Http(200, json_dumps(OllamaBody(JStr(World)))),
   Http(200, json_dumps(OllamaBody(JNull)))}

\* llm_generate(prompt) as a handler calls it, the network answering r
HandlerGenerate(p, r) ==
  LET step == llm_generate(p, JStr(cfg.DEFAULT_PROVIDER))
  IN IF step.sent = <<>> THEN step.ret ELSE llm_generate_reply(step.adapter, r)

\* title and analysis_type as handler h sets them
CaseKind(h) ==
  CASE h = "start_case" -> [title |-> "Case Study for", analysis_type |-> "standard"]
    [] h = "analyze_swot" -> [title |-> "SWOT Analysis for", analysis_type |-> "swot"]
    [] h = "analyze_pestle" -> [title |-> "PESTLE Analysis for", analysis_type |-> "pestle"]

\* case_obj as the handler of request q builds it
CaseObj(q) ==
  [case_id |-> CaseId(q), title |-> CaseKind(reqs[q].handler).title,
   analysis_type |-> CaseKind(reqs[q].handler).analysis_type,
   final_recommendation |-> json_dumps(reqs[q].rec)]

\* the arguments save_and_get_path renders the template with
RenderArgs(case_obj) ==
  LET fr == case_obj.final_recommendation
      recommendation == json_loads(IF fr = <<>> THEN <<"{", "}">> ELSE fr).v
  IN [title |-> case_obj.title,
      analysis_type |-> case_obj.analysis_type,
      recommendation |-> recommendation,
      plan_json |-> json_dumps(PyGet(recommendation, K_plan_30_60_90, EmptyDict))]

\* the row a handler inserts; created_at left out
Row(q) ==
  LET case_obj == CaseObj(q)
  IN [case_id |-> case_obj.case_id, title |-> case_obj.title,
      analysis_type |-> case_obj.analysis_type,
      final_recommendation |-> case_obj.final_recommendation,
      report_html |-> ReportPath(case_obj.case_id)]

\* the handler of request q after an exception has ended it: its locals are gone
Failed(q) == Request("failed", reqs[q].handler, 0, NoVal, NoVal)

InitHandlers ==
  /\ RouterParked
  /\ ExtractParked
  /\ HandlersParked

\* a request reaches one of the three routes; the handler draws its case_id.
\* start_case has three llm_generate calls ahead, the other two have one
Arrive(q) ==
  /\ reqs[q].hpc = "none"
  /\ \E h \in {"start_case", "analyze_swot", "analyze_pestle"} :
       reqs' = [reqs EXCEPT ![q] =
                  Request("llm", h, IF h = "start_case" THEN 3 ELSE 1, NoVal, NoVal)]
  /\ UNCHANGED <<files, cases>>
  /\ UNCHANGED routerVars
  /\ UNCHANGED extractVars

\* one llm_generate call of the handler returns; the value of the last one is
\* raw_rec, the earlier ones only go into the next prompt
Generate(q) ==
  /\ reqs[q].hpc = "llm"
  /\ \E r \in HandlerResponses :
       LET v == HandlerGenerate(PromptA, r)
           left == reqs[q].left - 1
       IN reqs' = [reqs EXCEPT ![q] =
                     IF left = 0 THEN Request("got", reqs[q].handler, 0, v, NoVal)
                     ELSE Request("llm", reqs[q].handler, left, NoVal, NoVal)]
  /\ UNCHANGED <<files, cases>>
  /\ UNCHANGED routerVars
  /\ UNCHANGED extractVars

\* rec = parse_json_from_llm(raw_rec); text.find raises when raw_rec is no str
\* and the request ends there
Parse(q) ==
  /\ reqs[q].hpc = "got"
  /\ reqs' = [reqs EXCEPT ![q] =
                IF IsStr(reqs[q].raw_rec)
                THEN Request("parsed", reqs[q].handler, 0, reqs[q].raw_rec,
                             parse_json_from_llm(reqs[q].raw_rec.s))
                ELSE Failed(q)]
  /\ UNCHANGED <<files, cases>>
  /\ UNCHANGED routerVars
  /\ UNCHANGED extractVars

\* save_and_get_path up to open(path, "w"): the file is there and empty, or
\* open raises
OpenReport(q) ==
  /\ reqs[q].hpc = "parsed"
  /\ \E ok \in BOOLEAN :
       IF ok
       THEN /\ files' = [files EXCEPT ![ReportPath(CaseId(q))] =
                           NoFile("empty")]
            /\ reqs' = [reqs EXCEPT ![q].hpc = "open"]
       ELSE /\ files' = files
            /\ reqs' = [reqs EXCEPT ![q] = Failed(q)]
  /\ UNCHANGED cases
  /\ UNCHANGED routerVars
  /\ UNCHANGED extractVars

\* f.write(html) and the close at the end of the with block, or a write that
\* raises part way
WriteReport(q) ==
  /\ reqs[q].hpc = "open"
  /\ \E ok \in BOOLEAN :
       IF ok
       THEN /\ files' = [files EXCEPT ![ReportPath(CaseId(q))] =
                           [state |-> "written", html |-> RenderArgs(CaseObj(q))]]
            /\ reqs' = [reqs EXCEPT ![q].hpc = "saved"]
       ELSE /\ files' = [files EXCEPT ![ReportPath(CaseId(q))] =
                           NoFile("partial")]
            /\ reqs' = [reqs EXCEPT ![q] = Failed(q)]
  /\ UNCHANGED cases
  /\ UNCHANGED routerVars
  /\ UNCHANGED extractVars

\* InsertRow placed ahead of save_and_get_path
InsertRow_BeforeSave(q) ==
  /\ reqs[q].hpc = "parsed"
  /\ reqs' = [reqs EXCEPT ![q] =
                IF \E o \in Requests \ {q} : reqs[o].hpc = "inserted" THEN Failed(q)
                ELSE [reqs[q] EXCEPT !.hpc = "inserted"]]
  /\ UNCHANGED <<files, cases>>
  /\ UNCHANGED routerVars
  /\ UNCHANGED extractVars

\* conn.execute('INSERT INTO cases ...'): the row is in the connection's open
\* transaction; with the database locked by another request, its INSERT done
\* and not committed, the call raises
InsertRow(q) ==
  /\ reqs[q].hpc = "saved"
  /\ reqs' = [reqs EXCEPT ![q] =
                IF \E o \in Requests \ {q} : reqs[o].hpc = "inserted" THEN Failed(q)
                ELSE [reqs[q] EXCEPT !.hpc = "inserted"]]
  /\ UNCHANGED <<files, cases>>
  /\ UNCHANGED routerVars
  /\ UNCHANGED extractVars

\* conn.commit(); conn.close(); return
Commit(q) ==
  /\ reqs[q].hpc = "inserted"
  /\ cases' = cases \cup {Row(q)}
  /\ reqs' = [reqs EXCEPT ![q].hpc = "done"]
  /\ UNCHANGED files
  /\ UNCHANGED routerVars
  /\ UNCHANGED extractVars

NextHandlers ==
  \E q \in Requests :
    \/ Arrive(q)
    \/ Generate(q)
    \/ Parse(q)
    \/ OpenReport(q)
    \/ WriteReport(q)
    \/ InsertRow(q)
    \/ Commit(q)

SpecHandlers == InitHandlers /\ [][NextHandlers]_vars

\* ------------------------------------------------------------------ route-handler claims

\* how far a handler has come
Rank(hpc) ==
  CASE hpc = "none" -> 0
    [] hpc = "llm" -> 1
    [] hpc = "got" -> 2
    [] hpc = "parsed" -> 3
    [] hpc = "open" -> 4
    [] hpc = "saved" -> 5
    [] hpc = "inserted" -> 6
    [] hpc = "done" -> 7
    [] OTHER -> 8
\* request q has inserted its row: pending in its transaction, or committed
HasRow(q) == reqs[q].hpc \in {"inserted", "done"}
ReportOf(q) == files[ReportPath(CaseId(q))]
\* the report a row points at is complete and is the rendering of that row
RowHasReport(row) ==
  /\ row.report_html \in DOMAIN files
  /\ files[row.report_html].state = "written"
  /\ files[row.report_html].html.analysis_type = row.analysis_type
  /\ files[row.report_html].html.recommendation = json_loads(row.final_recommendation).v
RowsHaveReports ==
  /\ \A row \in cases : RowHasReport(row)
  /\ \A q \in Requests : reqs[q].hpc = "inserted" => RowHasReport(Row(q))
  /\ \A q \in Requests : reqs[q].hpc = "done" => Row(q) \in cases
\* a handler moves one step on, makes its next llm_generate call, or ends in an error
StepsInOrder ==
  \A q \in Requests :
    \/ reqs'[q] = reqs[q]
    \/ reqs'[q].hpc = "failed"
    \/ reqs[q].hpc = "llm" /\ reqs'[q].hpc = "llm" /\ reqs'[q].left = reqs[q].left - 1
    \/ Rank(reqs'[q].hpc) = Rank(reqs[q].hpc) + 1
\* a row appears only when its report is already complete
RowInsertedAfterWrite ==
  /\ \A q \in Requests : (~HasRow(q) /\ reqs'[q].hpc \in {"inserted", "done"})
                            => ReportOf(q).state = "written"
  /\ \A row \in cases' \ cases : RowHasReport(row)
\* a complete report is never touched again, a row never removed
ReportsKept ==
  /\ \A f \in DOMAIN files : files[f].state = "written" => files'[f] = files[f]
  /\ cases \subseteq cases'

\* C14: in start_case, analyze_swot and analyze_pestle the steps run in the
\* order llm_generate call(s), parse_json_from_llm, write report file, insert
\* row; so under any interleaving of requests every row of cases, pending or
\* committed, points at a report file that was completely written before the
\* row was inserted and is not changed afterwards.
C14_RowAfterReport ==
  []RowsHaveReports /\ [][StepsInOrder /\ RowInsertedAfterWrite /\ ReportsKept]_vars

\* C14 witness: start_case has committed its row and its report is complete,
\* while another request, which found the database locked, has left a complete
\* report with no row.
C14_Witness ==
  \E q \in Requests, o \in Requests :
    /\ q # o
    /\ reqs[q].handler = "start_case" /\ reqs[q].hpc = "done"
    /\ Row(q) \in cases /\ RowHasReport(Row(q))
    /\ reqs[q].rec = PlanObject
    /\ reqs[o].hpc = "failed" /\ ReportOf(o).state = "written"
    /\ \A row \in cases : row.case_id # CaseId(o)

====
